---- MODULE Spec2Model ----
(***************************************************************************)
(* A model of simple-http-server: the Request parser (request.py), the     *)
(* Response model (response.py), route matching (route.py) and the Server  *)
(* accept loop, connection handler and shutdown (server.py).               *)
(*                                                                         *)
(* Strings are sequences of one-character strings, so that str.split and   *)
(* the `in` test are computed character by character as Python does.       *)
(***************************************************************************)
EXTENDS Integers, Sequences, FiniteSets, TLC

\* ------------------------------------------------------------------------
\* Bounds of the model
\* ------------------------------------------------------------------------

\* Number of connections the peer side offers to the accept loop.
MaxConns == 2

\* Number of accept timeouts (socket.timeout) the environment produces.
MaxTimeouts == 1

\* Parser runs: the number of pieces (characters, or a CR LF pair) a text is
\* put together from, and the number of header lines of a built request.
MaxPieces == 7
MaxHeaders == 3

\* ------------------------------------------------------------------------
\* Characters and literals of the source
\* ------------------------------------------------------------------------

CR == "\r"
LF == "\n"

\* '\r\n', the line separator of request.py:42
CRLF == <<CR, LF>>

\* '\r\n\r\n', the header/body separator of request.py:41
SEP == <<CR, LF, CR, LF>>

\* ': ', the key/value delimiter of request.py:47-48
COLON_SP == <<":", " ">>

\* The characters str.split() treats as whitespace (those the inputs use).
Whitespace == {" ", "\t", CR, LF}

\* 'Content-Type', server.py:112
CONTENT_TYPE == <<"C","o","n","t","e","n","t","-","T","y","p","e">>

\* 'application/json', server.py:112
APPLICATION_JSON == <<"a","p","p","l","i","c","a","t","i","o","n","/","j","s","o","n">>

\* 'Authorization', server.py:193
AUTHORIZATION == <<"A","u","t","h","o","r","i","z","a","t","i","o","n">>

\* A byte that is not valid UTF-8 on its own (0xFF); bytes.decode() raises
\* UnicodeDecodeError, a subclass of ValueError, when it meets one.
BAD_BYTE == "xFF"

\* The size handed to conn.recv, server.py:106
BUFSIZE == 1024

\* ------------------------------------------------------------------------
\* Python string operations
\* ------------------------------------------------------------------------

\* s.find(p) + 1: the index of the first occurrence of p in s, 0 when absent.
Find(s, p) ==
    LET hits == {i \in 1..(Len(s) - Len(p) + 1) : SubSeq(s, i, i + Len(p) - 1) = p}
    IN  IF hits = {} THEN 0 ELSE CHOOSE i \in hits : \A j \in hits : i <= j

\* p in s
Contains(s, p) == Find(s, p) # 0

\* The part of s before / after the first occurrence of p (p occurs in s).
Before(s, p) == SubSeq(s, 1, Find(s, p) - 1)
After(s, p) == SubSeq(s, Find(s, p) + Len(p), Len(s))

\* s.split(p, 1)
Split1(s, p) == IF Contains(s, p) THEN <<Before(s, p), After(s, p)>> ELSE <<s>>

\* s.split(p)
RECURSIVE Split(_, _)
Split(s, p) ==
    IF Contains(s, p) THEN <<Before(s, p)>> \o Split(After(s, p), p) ELSE <<s>>

\* s.split(): the maximal runs of non-whitespace characters, in order.
RECURSIVE SplitWS(_, _)
SplitWS(s, cur) ==
    IF s = <<>> THEN (IF cur = <<>> THEN <<>> ELSE <<cur>>)
    ELSE IF Head(s) \in Whitespace
         THEN (IF cur = <<>> THEN <<>> ELSE <<cur>>) \o SplitWS(Tail(s), <<>>)
         ELSE SplitWS(Tail(s), Append(cur, Head(s)))

\* bytes.decode(): the bytes as text, or a UnicodeDecodeError.
DecodeRaises(bytes) == \E i \in 1..Len(bytes) : bytes[i] = BAD_BYTE
Decode(bytes) == bytes

\* ------------------------------------------------------------------------
\* request.py
\* ------------------------------------------------------------------------

\* A dict is a set of <<key, value>> pairs with unique keys.
EmptyDict == {}
DictHas(d, k) == \E p \in d : p[1] = k
DictGet(d, k) == (CHOOSE p \in d : p[1] = k)[2]
\* header_dict[key] = value, request.py:49, keeping an entry that exists.
DictPut_KeepFirst(d, k, v) == IF \E p \in d : p[1] = k THEN d ELSE d \cup {<<k, v>>}

DictPut(d, k, v) == {p \in d : p[1] # k} \cup {<<k, v>>}

\* The body attribute: Request.__init__ stores `body or {}`, so an empty
\* string becomes an empty dict.
StrBody(s) == [type |-> "str", chars |-> s]
DictBody == [type |-> "dict", chars |-> <<>>]

\* Request.__init__
Request(method, path, headers, body) ==
    [method |-> method, path |-> path, headers |-> headers,
     body |-> IF body = <<>> THEN DictBody ELSE StrBody(body)]

\* The loop over header_lines of Request.from_raw.
RECURSIVE HeaderDict(_, _)
HeaderDict(lines, d) ==
    IF lines = <<>> THEN d
    ELSE LET line == Head(lines)
         IN  IF Contains(line, COLON_SP)
             THEN HeaderDict(Tail(lines),
                             DictPut(d, Before(line, COLON_SP), After(line, COLON_SP)))
             ELSE HeaderDict(Tail(lines), d)

\* The value returned from the except ValueError branch of Request.from_raw.
EmptyRequest == Request(<<>>, <<>>, EmptyDict, <<>>)

\* Request.from_raw with the headers kept when the request line fails to
\* unpack.
from_raw_KeepsHeaders(raw_data) ==
    LET parts == Split1(raw_data, SEP)
    IN  IF Len(parts) # 2 THEN EmptyRequest
        ELSE LET lines  == Split(parts[1], CRLF)
                 tokens == SplitWS(lines[1], <<>>)
             IN  IF Len(tokens) # 3
                 THEN Request(<<>>, <<>>, HeaderDict(Tail(lines), EmptyDict), <<>>)
                 ELSE Request(tokens[1], tokens[2],
                              HeaderDict(Tail(lines), EmptyDict), parts[2])

\* Request.from_raw taking method and path from a request line of two or
\* more tokens.
from_raw_Lenient(raw_data) ==
    LET parts == Split1(raw_data, SEP)
    IN  IF Len(parts) # 2 THEN EmptyRequest
        ELSE LET lines  == Split(parts[1], CRLF)
                 tokens == SplitWS(lines[1], <<>>)
             IN  IF Len(tokens) < 2 THEN EmptyRequest
                 ELSE Request(tokens[1], tokens[2],
                              HeaderDict(Tail(lines), EmptyDict), parts[2])

\* Request.from_raw
from_raw(raw_data) ==
    LET parts == Split1(raw_data, SEP)
    IN  IF Len(parts) # 2 THEN EmptyRequest
        ELSE LET lines  == Split(parts[1], CRLF)
                 tokens == SplitWS(lines[1], <<>>)
             IN  IF Len(tokens) # 3 THEN EmptyRequest
                 ELSE Request(tokens[1], tokens[2],
                              HeaderDict(Tail(lines), EmptyDict), parts[2])

\* ------------------------------------------------------------------------
\* response.py
\* ------------------------------------------------------------------------

\* Response.status_messages, response.py:14, with the .get(_, 'Unknown')
\* of response.py:25.
status_text(status_code) ==
    CASE status_code = 200 -> "OK"
      [] status_code = 400 -> "Bad Request"
      [] status_code = 404 -> "Not Found"
      [] OTHER -> "Unknown"

\* STATUS_MESSAGES of server.py:12-17, with the .get(_, 'Unknown') of
\* server.py:135; the server uses it for its log lines only.
STATUS_MESSAGES(status_code) ==
    CASE status_code = 200 -> "OK"
      [] status_code = 400 -> "Bad Request"
      [] status_code = 403 -> "Forbidden"
      [] status_code = 404 -> "Not Found"
      [] OTHER -> "Unknown"

\* Response.__init__
Response(status_code, content) ==
    [kind |-> "Response", status_code |-> status_code,
     status_text |-> status_text(status_code), content |-> content]

\* A content that json.dumps cannot serialise (it raises TypeError).
NonJsonContent == [object |-> "set()"]
JsonDumpsRaises(content) == content = NonJsonContent

\* Response.to_http_response: the status line, the one header, the blank
\* line and the JSON text of the content.
to_http_response(r) ==
    [status_line |-> <<"HTTP/1.1", r.status_code, r.status_text>>,
     header_lines |-> <<"Content-Type: application/json">>,
     body |-> [json |-> r.content]]

\* The responses the pipeline builds itself.
InvalidContentType == Response(400, [error |-> "Invalid Content-Type"])
InvalidRequestFormat == Response(400, [error |-> "Invalid request format"])
Forbidden == Response(403, [error |-> "Forbidden"])
RouteNotFound == Response(404, [error |-> "Route not found"])

\* ------------------------------------------------------------------------
\* route.py
\* ------------------------------------------------------------------------

\* Route.__init__
Route(method, path, handler) == [method |-> method, path |-> path, handler |-> handler]

\* Route.matches with the comparison of the methods left out.
matches_PathOnly(route, method, path) == route.path = path

\* Route.matches
matches(route, method, path) == route.method = method /\ route.path = path

\* ------------------------------------------------------------------------
\* External collaborators: route handlers and authorization handlers
\* ------------------------------------------------------------------------

\* What a handler does with a request: the two handlers of server.py, and
\* handlers that break the handler contract in each possible way.
HandlerResult(handler, req) ==
    CASE handler = "handle_root" ->
             Response(200, [message |-> "Hello, world!", body |-> req.body])
      [] handler = "handle_about" ->
             Response(200, [message |-> "This is the about page"])
      [] handler = "handle_teapot" -> Response(418, [message |-> "teapot"])
      [] handler = "handle_forbidden" -> Response(403, [error |-> "Forbidden"])
      [] handler = "handle_unserializable" -> Response(200, NonJsonContent)
      [] handler = "handle_not_response" -> [kind |-> "dict"]
      [] OTHER -> [kind |-> "raise"]

\* What an authorization handler answers: "true", "false" or "raise".
\* custom_auth_handler is the one of server.py:183-193.
AuthResult(auth, headers) ==
    CASE auth = "custom_auth_handler" ->
             IF DictHas(headers, AUTHORIZATION) THEN "true" ELSE "false"
      [] auth = "deny_all" -> "false"
      [] auth = "allow_all" -> "true"
      [] OTHER -> "raise"

\* ------------------------------------------------------------------------
\* The inputs of the model: server configurations and the bytes peers send
\* ------------------------------------------------------------------------

GET == <<"G","E","T">>
POST == <<"P","O","S","T">>
HTTP11 == <<"H","T","T","P","/","1",".","1">>
TEXT_PLAIN == <<"t","e","x","t","/","p","l","a","i","n">>
ROOT == <<"/">>
ABOUT == <<"/","a","b","o","u","t">>
MISSING == <<"/","m","i","s","s","i","n","g">>

\* "METHOD SP PATH SP VERSION"
Line(method, path) == method \o <<" ">> \o path \o <<" ">> \o HTTP11

\* "Key: Value"
Header(key, value) == key \o COLON_SP \o value

\* The request lines peers send; the last four do not split into three tokens
\* or split on a bare CR or LF.
WellFormedLines ==
    {Line(GET, ROOT), Line(GET, ABOUT), Line(GET, MISSING), Line(POST, ROOT),
     Line(GET, <<"/","t">>), Line(GET, <<"/","f">>), Line(GET, <<"/","u">>),
     Line(GET, <<"/","n">>), Line(GET, <<"/","r">>),
     Line(<<"g","e","t">>, ROOT), Line(GET, ABOUT \o <<"/">>)}
MalformedLines ==
    {GET \o <<" ">> \o ROOT, <<>>, Line(GET, ROOT) \o <<" ">> \o <<"x">>}
OddLines == {GET \o <<LF>> \o ROOT \o <<"\t">> \o HTTP11}

\* The header blocks peers send, as sequences of header lines.
HeaderBlocks ==
    {<<>>,
     <<Header(CONTENT_TYPE, TEXT_PLAIN)>>,
     <<Header(CONTENT_TYPE, APPLICATION_JSON)>>,
     <<Header(CONTENT_TYPE, APPLICATION_JSON \o <<" ">>)>>,
     <<Header(CONTENT_TYPE, TEXT_PLAIN), Header(CONTENT_TYPE, APPLICATION_JSON)>>,
     <<Header(CONTENT_TYPE, APPLICATION_JSON), Header(CONTENT_TYPE, TEXT_PLAIN)>>,
     <<Header(AUTHORIZATION, <<"k">>)>>,
     <<Header(AUTHORIZATION, <<"k">>), Header(CONTENT_TYPE, TEXT_PLAIN)>>,
     <<Header(<<"c","o","n","t","e","n","t","-","t","y","p","e">>, TEXT_PLAIN)>>,
     <<CONTENT_TYPE \o <<":">> \o TEXT_PLAIN>>}

Bodies == {<<>>, <<"{","}">>}

RECURSIVE JoinLines(_)
JoinLines(lines) ==
    IF lines = <<>> THEN <<>> ELSE CRLF \o Head(lines) \o JoinLines(Tail(lines))

\* The bytes of a request: request line, header lines, blank line, body.
Raw(line, headers, body) == line \o JoinLines(headers) \o SEP \o body

\* Everything a peer may send on a connection: nothing at all, requests with
\* and without the blank line, and bytes that are not UTF-8.
RawInputs ==
    {Raw(l, <<>>, <<>>) : l \in WellFormedLines \cup MalformedLines \cup OddLines}
    \cup {Raw(Line(GET, ROOT), h, b) : h \in HeaderBlocks, b \in Bodies}
    \cup {Raw(l, h, <<>>) : l \in {Line(GET, MISSING), GET \o <<" ">> \o ROOT},
                            h \in HeaderBlocks}
    \cup {<<>>,
          Line(GET, ROOT),
          Line(GET, ROOT) \o CRLF \o Header(CONTENT_TYPE, TEXT_PLAIN) \o CRLF,
          <<BAD_BYTE>>,
          Raw(Line(GET, ROOT), <<>>, <<BAD_BYTE>>)}

\* The route tables servers are constructed with: none, the one of the
\* __main__ block of server.py, and tables with duplicate bindings, with
\* handlers that break the handler contract and with an empty method and path.
RouteTables ==
    {<<>>,
     <<Route(GET, ROOT, "handle_root"), Route(GET, ABOUT, "handle_about")>>,
     <<Route(GET, ABOUT, "handle_about"),
       Route(GET, ROOT, "handle_about"),
       Route(GET, ROOT, "handle_root"),
       Route(POST, ROOT, "handle_teapot"),
       Route(GET, <<"/","t">>, "handle_teapot"),
       Route(GET, <<"/","f">>, "handle_forbidden"),
       Route(GET, <<"/","u">>, "handle_unserializable"),
       Route(GET, <<"/","n">>, "handle_not_response"),
       Route(GET, <<"/","r">>, "handle_raises"),
       Route(GET, <<"/","t">>, "handle_raises")>>,
     <<Route(<<>>, <<>>, "handle_teapot"), Route(GET, ROOT, "handle_root")>>}

\* The authorization handlers servers are constructed with; "None" is the
\* default of Server.__init__.
AuthHandlers == {"None", "custom_auth_handler", "deny_all", "allow_all", "auth_raises"}

\* ------------------------------------------------------------------------
\* server.py: the state of a Server and of the thread that runs start()
\* ------------------------------------------------------------------------

VARIABLES
    routes,         \* self.routes
    auth_handler,   \* self.auth_handler
    running,        \* self.running
    sock,           \* self.sock: "created", "listening" or "closed"
    sigint,         \* the disposition of SIGINT: "default" or "signal_handler"
    pc,             \* the position of the thread in start() / handle_request()
    exit,           \* how the process ended: "no", "returned", "SystemExit",
                    \* "KeyboardInterrupt" or "OSError"
    conn,           \* <<c>> while connection c is being handled, else <<>>
    openConns,      \* the accepted connections that are not closed
    served,         \* the connections handle_request was left for, in order
    accepted,       \* the number of connections accept() has returned
    timeouts,       \* the number of socket.timeout raised by accept()
    given,          \* <<parts>> when the text in `data` was built from a request
                    \* line, header lines and a body (parser runs), else <<>>
    received,       \* what conn.recv returned: <<>> before it did, else <<bytes>>
    data,           \* the local `data`: <<>> while unbound, else <<text>>
    request,        \* the local `request`: <<>> while unbound, else <<r>>
    response,       \* the local `response`: <<>> while unbound, else <<r>>
    sendLine,       \* the line of the send_response call that is due, or 0
    written,        \* what sendall wrote to the connection, in order
    authCalls,      \* the headers auth_handler was called with
    handlerCalls,   \* the handlers that were called for the connection
    left,           \* how handle_request was left for the connection accepted
                    \* last: "" while it has not been, "return", or the exception
    error,          \* the exception the loop body raised last, or "none"
    shutdownCalls,  \* the number of calls of shutdown()
    closeCalls      \* the number of calls of self.sock.close()

config == <<routes, auth_handler>>
server == <<running, sock, sigint, shutdownCalls, closeCalls>>
conns  == <<conn, openConns, served, left>>
peers  == <<accepted, timeouts, given>>
locals == <<received, data, request, response, sendLine>>
calls  == <<written, authCalls, handlerCalls>>
vars   == <<config, server, conns, peers, locals, calls, pc, exit, error>>

\* Server.__init__ has run: the socket exists, nothing listens yet.
Init ==
    /\ routes \in RouteTables
    /\ auth_handler \in AuthHandlers
    /\ running = FALSE
    /\ sock = "created"
    /\ sigint = "default"
    /\ pc = "start"
    /\ exit = "no"
    /\ conn = <<>>
    /\ openConns = {}
    /\ served = <<>>
    /\ accepted = 0
    /\ timeouts = 0
    /\ given = <<>>
    /\ received = <<>>
    /\ data = <<>>
    /\ request = <<>>
    /\ response = <<>>
    /\ sendLine = 0
    /\ written = <<>>
    /\ authCalls = <<>>
    /\ handlerCalls = <<>>
    /\ left = ""
    /\ error = "none"
    /\ shutdownCalls = 0
    /\ closeCalls = 0

\* ---- Server.start ------------------------------------------------------

\* server.py:77-78: bind and listen; a failing bind raises out of start().
Listen ==
    /\ pc = "start"
    /\ \E ok \in BOOLEAN :
         IF ok THEN /\ sock' = "listening"
                    /\ pc' = "set_running"
                    /\ UNCHANGED exit
               ELSE /\ pc' = "exited"
                    /\ exit' = "OSError"
                    /\ UNCHANGED sock
    /\ UNCHANGED <<config, running, sigint, shutdownCalls, closeCalls,
                   conns, peers, locals, calls, error>>

\* server.py:80
SetRunning ==
    /\ pc = "set_running"
    /\ running' = TRUE
    /\ pc' = "register"
    /\ UNCHANGED <<config, sock, sigint, shutdownCalls, closeCalls,
                   conns, peers, locals, calls, exit, error>>

\* server.py:81
RegisterSignal ==
    /\ pc = "register"
    /\ sigint' = "signal_handler"
    /\ pc' = "loop"
    /\ UNCHANGED <<config, running, sock, shutdownCalls, closeCalls,
                   conns, peers, locals, calls, exit, error>>

\* server.py:83: the test of `while self.running`.
LoopTest ==
    /\ pc = "loop"
    /\ pc' = IF running THEN "accept" ELSE "shutdown"
    /\ UNCHANGED <<config, server, conns, peers, locals, calls, exit, error>>

\* server.py:85-86 and 88-89: accept() times out, the loop continues.
AcceptTimeout ==
    /\ pc = "accept"
    /\ timeouts < MaxTimeouts
    /\ timeouts' = timeouts + 1
    /\ pc' = "loop"
    /\ UNCHANGED <<config, server, conns, accepted, given, locals, calls, exit, error>>

\* server.py:85-87: accept() returns a connection and handle_request is
\* entered with fresh locals.
AcceptConn ==
    /\ pc = "accept"
    /\ accepted < MaxConns
    /\ accepted' = accepted + 1
    /\ conn' = <<accepted + 1>>
    /\ openConns' = openConns \cup {accepted + 1}
    /\ left' = ""
    /\ received' = <<>>
    /\ data' = <<>>
    /\ request' = <<>>
    /\ response' = <<>>
    /\ sendLine' = 0
    /\ written' = <<>>
    /\ authCalls' = <<>>
    /\ handlerCalls' = <<>>
    /\ pc' = "recv"
    /\ UNCHANGED <<config, server, served, timeouts, given, exit, error>>

\* server.py:85-86: accept() raises something that is not socket.timeout.
AcceptError ==
    /\ pc = "accept"
    /\ error' = "OSError"
    /\ pc' = "except"
    /\ UNCHANGED <<config, server, conns, peers, locals, calls, exit>>

\* server.py:90-92 without the assignment to self.running.
ExceptFatal_KeepsRunning ==
    /\ pc = "except"
    /\ pc' = "loop"
    /\ UNCHANGED <<config, server, conns, peers, locals, calls, exit, error>>

\* server.py:90-92
ExceptFatal ==
    /\ pc = "except"
    /\ running' = FALSE
    /\ pc' = "loop"
    /\ UNCHANGED <<config, sock, sigint, shutdownCalls, closeCalls,
                   conns, peers, locals, calls, exit, error>>

\* server.py:94: the call of shutdown() after the loop.
Shutdown ==
    /\ pc = "shutdown"
    /\ shutdownCalls' = shutdownCalls + 1
    /\ pc' = "sock_close"
    /\ UNCHANGED <<config, running, sock, sigint, closeCalls,
                   conns, peers, locals, calls, exit, error>>

\* server.py:163
SockClose ==
    /\ pc = "sock_close"
    /\ sock' = "closed"
    /\ closeCalls' = closeCalls + 1
    /\ pc' = "return"
    /\ UNCHANGED <<config, running, sigint, shutdownCalls,
                   conns, peers, locals, calls, exit, error>>

\* shutdown() and then start() return.
Return ==
    /\ pc = "return"
    /\ pc' = "done"
    /\ exit' = "returned"
    /\ UNCHANGED <<config, server, conns, peers, locals, calls, error>>

\* ---- Server.handle_request ---------------------------------------------

Min(a, b) == IF a <= b THEN a ELSE b

\* handle_request without its with block: the connection stays open.
CloseConn_Leak(open, c) == open

\* conn.close() on leaving `with conn:` (server.py:104): the connections that
\* are open afterwards.
CloseConn(open, c) == open \ {c}

\* handle_request returns to the loop body, which ends; the with block closes
\* the connection.
LeaveByReturn ==
    /\ openConns' = CloseConn(openConns, conn[1])
    /\ served' = Append(served, conn[1])
    /\ conn' = <<>>
    /\ left' = "return"
    /\ pc' = "loop"
    /\ UNCHANGED error

\* handle_request left by an exception without the with block: the
\* connection is not closed on that path.
LeaveByRaise_NoClose(e) ==
    /\ UNCHANGED openConns
    /\ served' = Append(served, conn[1])
    /\ conn' = <<>>
    /\ left' = e
    /\ pc' = "except"
    /\ error' = e

\* handle_request is left by an exception, which reaches the except clauses
\* of start(); the with block closes the connection.
LeaveByRaise(e) ==
    /\ openConns' = CloseConn(openConns, conn[1])
    /\ served' = Append(served, conn[1])
    /\ conn' = <<>>
    /\ left' = e
    /\ pc' = "except"
    /\ error' = e

\* The test of server.py:107 left out: no data is treated as a request.
NoData_Never(text) == FALSE

\* `not data`, server.py:107
NoData(text) == text = <<>>

\* server.py:106-108: the one read, the decoding and the test for no data.
Recv ==
    /\ pc = "recv"
    /\ \E m \in RawInputs, ok \in BOOLEAN :
         LET bytes == SubSeq(m, 1, Min(Len(m), BUFSIZE))
         IN  IF ~ok
             THEN LeaveByRaise("OSError") /\ UNCHANGED <<received, data>>
             ELSE /\ received' = <<bytes>>
                  /\ IF DecodeRaises(bytes)
                     THEN pc' = "valueerror" /\ UNCHANGED <<data, conns, error>>
                     ELSE /\ data' = <<Decode(bytes)>>
                          /\ IF NoData(Decode(bytes))
                             THEN LeaveByReturn
                             ELSE pc' = "parse" /\ UNCHANGED <<conns, error>>
    /\ UNCHANGED <<config, server, peers, request, response, sendLine, calls, exit>>

\* The condition of server.py:112 without the comparison of the value.
InvalidContentTypeHeader_AnyValue(headers) == DictHas(headers, CONTENT_TYPE)

\* The condition of server.py:112.
InvalidContentTypeHeader(headers) ==
    DictHas(headers, CONTENT_TYPE) /\ DictGet(headers, CONTENT_TYPE) # APPLICATION_JSON

\* server.py:110-113: parse, then the Content-Type guard.
Parse ==
    /\ pc = "parse"
    /\ LET r == from_raw(data[1])
       IN  /\ request' = <<r>>
           /\ IF InvalidContentTypeHeader(r.headers)
              THEN /\ response' = <<InvalidContentType>>
                   /\ sendLine' = 114
                   /\ pc' = "send"
              ELSE /\ pc' = "auth"
                   /\ UNCHANGED <<response, sendLine>>
    /\ UNCHANGED <<config, server, conns, peers, received, data, calls, exit, error>>

\* server.py:117-118: the except ValueError clause of handle_request.
ValueErrorBranch ==
    /\ pc = "valueerror"
    /\ response' = <<InvalidRequestFormat>>
    /\ sendLine' = 119
    /\ pc' = "send"
    /\ UNCHANGED <<config, server, conns, peers, received, data, request, calls, exit, error>>

\* The condition of server.py:124 replaced by False: every request goes on to
\* dispatch.
AuthOutcome_AdmitAll(auth, headers) == "admit"

\* The condition of server.py:124 without its `not`.
AuthOutcome_NotMissing(auth, headers) ==
    IF auth = "None" THEN "admit"
    ELSE CASE AuthResult(auth, headers) = "true" -> "deny"
           [] AuthResult(auth, headers) = "false" -> "admit"
           [] OTHER -> "raise"

\* The condition of server.py:124: "admit", "deny", or "raise" when the
\* authorization handler raises.
AuthOutcome(auth, headers) ==
    IF auth = "None" THEN "admit"
    ELSE CASE AuthResult(auth, headers) = "true" -> "admit"
           [] AuthResult(auth, headers) = "false" -> "deny"
           [] OTHER -> "raise"

\* server.py:124-125: the authorization guard.
Authorize ==
    /\ pc = "auth"
    /\ LET headers == request[1].headers
           outcome == AuthOutcome(auth_handler, headers)
       IN  /\ authCalls' = IF auth_handler = "None" THEN authCalls
                           ELSE Append(authCalls, headers)
           /\ CASE outcome = "raise" ->
                     LeaveByRaise("Exception") /\ UNCHANGED <<response, sendLine>>
                [] outcome = "deny" ->
                     /\ response' = <<Forbidden>>
                     /\ sendLine' = 126
                     /\ pc' = "send"
                     /\ UNCHANGED <<conns, error>>
                [] OTHER ->
                     /\ pc' = "dispatch"
                     /\ UNCHANGED <<conns, error, response, sendLine>>
    /\ UNCHANGED <<config, server, peers, received, data, request, written, handlerCalls, exit>>

\* The loop of server.py:131-132 without its return: the last match wins.
FirstMatch_Last(rs, method, path) ==
    LET hits == {i \in 1..Len(rs) : matches(rs[i], method, path)}
    IN  IF hits = {} THEN 0 ELSE CHOOSE i \in hits : \A j \in hits : i >= j

\* The loop of server.py:131-132: the index of the first route that matches,
\* 0 when none does.
FirstMatch(rs, method, path) ==
    LET hits == {i \in 1..Len(rs) : matches(rs[i], method, path)}
    IN  IF hits = {} THEN 0 ELSE CHOOSE i \in hits : \A j \in hits : i <= j

\* The response of server.py:139.
NoRouteResponse == RouteNotFound

\* server.py:131-133 and 139: route dispatch.
Dispatch ==
    /\ pc = "dispatch"
    /\ LET req == request[1]
           i == FirstMatch(routes, req.method, req.path)
       IN  IF i = 0
           THEN /\ response' = <<NoRouteResponse>>
                /\ sendLine' = 140
                /\ pc' = "send"
                /\ UNCHANGED <<handlerCalls, conns, error>>
           ELSE LET res == HandlerResult(routes[i].handler, req)
                IN  /\ handlerCalls' = Append(handlerCalls,
                           [route |-> i, handler |-> routes[i].handler, request |-> req])
                    /\ IF res.kind = "raise"
                       THEN LeaveByRaise("Exception") /\ UNCHANGED <<response, sendLine>>
                       ELSE /\ response' = <<res>>
                            /\ sendLine' = 134
                            /\ pc' = "send"
                            /\ UNCHANGED <<conns, error>>
    /\ UNCHANGED <<config, server, peers, received, data, request, written, authCalls, exit>>

\* send_response without its sendall.
SendAll_Dropped(sent, r) == sent

\* conn.sendall of server.py:156: what the connection has been sent.
SendAll(sent, r) == Append(sent, to_http_response(r))

\* The try block of server.py:105-116 with every send_response call in it.
InTryBlock_All(line) == line \in {114, 126, 134, 140}

\* The send_response calls inside the try block of server.py:105-116, whose
\* ValueError the except clause of server.py:117 catches.
InTryBlock(line) == line = 114

\* A send_response call (server.py:114, 119, 126, 134 or 140, with the body
\* of send_response, server.py:154-156) and the statements after it, up to
\* the return. The log line of server.py:120 reads `request`, which is
\* unbound when the read or the decoding raised.
Send ==
    /\ pc = "send"
    /\ sendLine' = 0
    /\ LET r == response[1]
       IN  IF r.kind # "Response"
           THEN /\ UNCHANGED written
                /\ IF InTryBlock(sendLine)
                   THEN pc' = "valueerror" /\ UNCHANGED <<conns, error>>
                   ELSE LeaveByRaise("ValueError")
           ELSE IF JsonDumpsRaises(r.content)
           THEN LeaveByRaise("TypeError") /\ UNCHANGED written
           ELSE \E ok \in BOOLEAN :
                  IF ~ok
                  THEN LeaveByRaise("OSError") /\ UNCHANGED written
                  ELSE /\ written' = SendAll(written, r)
                       /\ IF sendLine = 119 /\ request = <<>>
                          THEN LeaveByRaise("UnboundLocalError")
                          ELSE LeaveByReturn
    /\ UNCHANGED <<config, server, peers, received, data, request, response,
                   authCalls, handlerCalls, exit>>

\* ---- SIGINT ------------------------------------------------------------

\* signal_handler held back while a connection is being handled.
signal_handler_Deferred ==
    /\ pc \notin {"done", "exited"}
    /\ sigint = "signal_handler"
    /\ conn = <<>>
    /\ running' = FALSE
    /\ shutdownCalls' = shutdownCalls + 1
    /\ closeCalls' = closeCalls + 1
    /\ sock' = "closed"
    /\ exit' = "SystemExit"
    /\ pc' = "exited"
    /\ UNCHANGED <<config, sigint, conns, peers, locals, calls, error>>

\* signal_handler without its call of shutdown().
signal_handler_NoShutdown ==
    /\ pc \notin {"done", "exited"}
    /\ sigint = "signal_handler"
    /\ running' = FALSE
    /\ exit' = "SystemExit"
    /\ pc' = "exited"
    /\ IF conn # <<>>
       THEN /\ openConns' = openConns \ {conn[1]}
            /\ served' = Append(served, conn[1])
            /\ conn' = <<>>
            /\ left' = "SystemExit"
       ELSE UNCHANGED conns
    /\ UNCHANGED <<config, sock, sigint, shutdownCalls, closeCalls,
                   peers, locals, calls, error>>

\* Server.signal_handler, server.py:68-71, run on a SIGINT that arrives after
\* server.py:81: running is cleared, shutdown() closes the socket, and
\* sys.exit raises SystemExit where the thread is, which leaves an open with
\* block (closing its connection) and is not caught by `except Exception`.
signal_handler ==
    /\ pc \notin {"done", "exited"}
    /\ sigint = "signal_handler"
    /\ running' = FALSE
    /\ shutdownCalls' = shutdownCalls + 1
    /\ closeCalls' = closeCalls + 1
    /\ sock' = "closed"
    /\ exit' = "SystemExit"
    /\ pc' = "exited"
    /\ IF conn # <<>>
       THEN /\ openConns' = CloseConn(openConns, conn[1])
            /\ served' = Append(served, conn[1])
            /\ conn' = <<>>
            /\ left' = "SystemExit"
       ELSE UNCHANGED conns
    /\ UNCHANGED <<config, sigint, peers, locals, calls, error>>

\* A SIGINT that arrives before server.py:81: Python raises KeyboardInterrupt,
\* which nothing in start() catches.
KeyboardInterrupt ==
    /\ pc \notin {"done", "exited"}
    /\ sigint = "default"
    /\ exit' = "KeyboardInterrupt"
    /\ pc' = "exited"
    /\ UNCHANGED <<config, server, conns, peers, locals, calls, error>>

Next ==
    \/ Listen
    \/ SetRunning
    \/ RegisterSignal
    \/ LoopTest
    \/ AcceptTimeout
    \/ AcceptConn
    \/ AcceptError
    \/ ExceptFatal
    \/ Shutdown
    \/ SockClose
    \/ Return
    \/ Recv
    \/ Parse
    \/ ValueErrorBranch
    \/ Authorize
    \/ Dispatch
    \/ Send
    \/ signal_handler
    \/ KeyboardInterrupt

Spec == Init /\ [][Next]_vars

\* ------------------------------------------------------------------------
\* Parser runs: Request.from_raw applied to one text
\* ------------------------------------------------------------------------

RECURSIVE Concat(_)
Concat(ss) == IF ss = <<>> THEN <<>> ELSE Head(ss) \o Concat(Tail(ss))

\* Every text of up to MaxPieces pieces: a letter, a space, CR LF, a bare LF.
Pieces == {<<"a">>, <<" ">>, CRLF, <<LF>>}
PieceTexts == {Concat(ps) : ps \in UNION {[1..n -> Pieces] : n \in 0..MaxPieces}}

\* A header line "Key: Value", and a line without ': '.
KeyValueLine(key, value) ==
    [kv |-> TRUE, key |-> key, value |-> value, text |-> key \o COLON_SP \o value]
OtherLine(text) == [kv |-> FALSE, key |-> <<>>, value |-> <<>>, text |-> text]

\* The header lines requests are built from: two keys, values that differ,
\* a value that holds ': ', an empty value, and lines without ': '.
HeaderLines ==
    {KeyValueLine(<<"A">>, <<"x">>),
     KeyValueLine(<<"A">>, <<"y">>),
     KeyValueLine(<<"B">>, <<"x">>),
     KeyValueLine(<<"A">>, <<"x", ":", " ", "y">>),
     KeyValueLine(<<"A">>, <<>>),
     OtherLine(<<"A", ":", "x">>),
     OtherLine(<<"z", "z">>)}

\* The tokens of the request lines requests are built from (three for a
\* request line as the parser wants it), and what stands between two tokens.
TokenLists ==
    {<<GET, ROOT, HTTP11>>, <<POST, ABOUT, HTTP11>>, <<GET, ROOT>>,
     <<GET, ROOT, HTTP11, <<"x">>>>, <<>>}
TokenGaps == {<<" ">>, <<"\t", " ">>}

\* The bodies requests are built with; the last holds the separator.
PartBodies == {<<>>, <<"{", "}">>, <<"x">> \o SEP \o <<"y">>}

\* The parts a request is built from; sep says whether the blank line is
\* sent.
GivenParts ==
    [tokens : TokenLists, gap : TokenGaps,
     lines : UNION {[1..n -> HeaderLines] : n \in 0..MaxHeaders},
     sep : BOOLEAN, body : PartBodies]

RECURSIVE JoinTokens(_, _)
JoinTokens(tokens, gap) ==
    IF tokens = <<>> THEN <<>>
    ELSE IF Len(tokens) = 1 THEN Head(tokens)
    ELSE Head(tokens) \o gap \o JoinTokens(Tail(tokens), gap)

\* The text of a request built from parts.
TextOfParts(g) ==
    JoinTokens(g.tokens, g.gap)
        \o JoinLines([i \in 1..Len(g.lines) |-> g.lines[i].text])
        \o (IF g.sep THEN SEP ELSE <<>>)
        \o g.body

\* A parser run starts with a text in `data`; nothing else of the server is
\* used.
ParseInit ==
    /\ routes = <<>>
    /\ auth_handler = "None"
    /\ running = FALSE
    /\ sock = "created"
    /\ sigint = "default"
    /\ pc = "from_raw"
    /\ exit = "no"
    /\ conn = <<>>
    /\ openConns = {}
    /\ served = <<>>
    /\ accepted = 0
    /\ timeouts = 0
    /\ received = <<>>
    /\ request = <<>>
    /\ response = <<>>
    /\ sendLine = 0
    /\ written = <<>>
    /\ authCalls = <<>>
    /\ handlerCalls = <<>>
    /\ left = ""
    /\ error = "none"
    /\ shutdownCalls = 0
    /\ closeCalls = 0
    /\ \/ \E t \in PieceTexts : given = <<>> /\ data = <<t>>
       \/ \E g \in GivenParts : given = <<g>> /\ data = <<TextOfParts(g)>>

\* request = Request.from_raw(data), server.py:110
FromRaw ==
    /\ pc = "from_raw"
    /\ request' = <<from_raw(data[1])>>
    /\ pc' = "parsed"
    /\ UNCHANGED <<config, server, conns, peers, received, data, response, sendLine,
                   calls, exit, error>>

ParseNext == FromRaw

ParseSpec == ParseInit /\ [][ParseNext]_vars

\* ------------------------------------------------------------------------
\* Properties
\* ------------------------------------------------------------------------

\* The parts of a response as written to a connection.
StatusOf(w) == w.status_line[2]
TextOf(w) == w.status_line[3]
ContentOf(w) == w.body.json

\* w is the error response with the given status and {"error": text}.
IsError(w, status, text) == StatusOf(w) = status /\ ContentOf(w) = [error |-> text]

\* The connection accepted last was answered with exactly that error response.
Answered(status, text) == Len(written) = 1 /\ IsError(written[1], status, text)

\* The headers hold the key 'Content-Type' with a value other than
\* 'application/json'.
ContentTypeNotJson(headers) ==
    \E p \in headers : p[1] = CONTENT_TYPE /\ p[2] # APPLICATION_JSON

\* The authorization guard lets a request with these headers through.
Admitted(headers) ==
    auth_handler = "None" \/ AuthResult(auth_handler, headers) = "true"

\* The routes whose method and path equal those of the request.
Matching(req) ==
    {i \in 1..Len(routes) : routes[i].method = req.method /\ routes[i].path = req.path}

\* C1: a request whose parsed headers hold Content-Type with a value other
\* than application/json is answered with 400 {"error": "Invalid
\* Content-Type"} (when handle_request returns, it has written exactly that),
\* and neither auth_handler nor a route handler is called for it; a request
\* without such a header is never answered with that 400 and goes on to the
\* authorization guard.
C1_ContentTypeGuard ==
    request # <<>> =>
        IF ContentTypeNotJson(request[1].headers)
        THEN /\ authCalls = <<>>
             /\ handlerCalls = <<>>
             /\ left \in {"", "return", "OSError", "SystemExit"}
             /\ Len(written) <= 1
             /\ \A i \in 1..Len(written) : IsError(written[i], 400, "Invalid Content-Type")
             /\ left = "return" => Len(written) = 1
        ELSE /\ \A i \in 1..Len(written) : ~IsError(written[i], 400, "Invalid Content-Type")
             /\ ~(pc = "send" /\ sendLine = 114)
             /\ \/ pc = "auth"
                \/ auth_handler = "None"
                \/ Len(authCalls) = 1
                \/ left = "SystemExit"

\* C1's case: under a deny-all authorization handler and with a route that
\* matches, a request with a wrong Content-Type has been answered with the 400.
C1_Witness ==
    /\ request # <<>>
    /\ ContentTypeNotJson(request[1].headers)
    /\ auth_handler = "deny_all"
    /\ Matching(request[1]) # {}
    /\ left = "return"
    /\ Answered(400, "Invalid Content-Type")

\* C2 as stated: under a deny-all authorization handler every request,
\* whatever its headers, is answered with 403 {"error": "Forbidden"}; without
\* an authorization handler the pipeline answers no request with 403.
C2_Original ==
    /\ (auth_handler = "deny_all" /\ request # <<>> /\ left = "return")
           => Answered(403, "Forbidden")
    /\ auth_handler = "None" =>
           /\ authCalls = <<>>
           /\ \A i \in 1..Len(written) : StatusOf(written[i]) = 403 => handlerCalls # <<>>

\* C2, amended: under a deny-all authorization handler every request that
\* the Content-Type guard lets through is answered with 403 {"error":
\* "Forbidden"} and reaches no route handler, and a request the Content-Type
\* guard rejects is answered with its 400; without an authorization handler
\* the only 403 ever written is one a route handler returned.
C2_AuthorizationGuard ==
    /\ (auth_handler = "deny_all" /\ request # <<>> /\ left = "return") =>
           IF ContentTypeNotJson(request[1].headers)
           THEN Answered(400, "Invalid Content-Type")
           ELSE Answered(403, "Forbidden") /\ handlerCalls = <<>>
    /\ auth_handler = "None" =>
           /\ authCalls = <<>>
           /\ \A i \in 1..Len(written) : StatusOf(written[i]) = 403 =>
                  /\ handlerCalls # <<>>
                  /\ written[i] =
                         to_http_response(HandlerResult(handlerCalls[1].handler, request[1]))

\* C2's case: a deny-all authorization handler has denied a request for a
\* registered route.
C2_Witness ==
    /\ auth_handler = "deny_all"
    /\ request # <<>>
    /\ Matching(request[1]) # {}
    /\ left = "return"
    /\ Answered(403, "Forbidden")

\* C3: every response written carries the status text of the table
\* {200: OK, 400: Bad Request, 403: Forbidden, 404: Not Found}, 'Unknown' for
\* other codes; so a denial is written with the status line
\* 'HTTP/1.1 403 Forbidden'.
C3_StatusText ==
    \A i \in 1..Len(written) :
        /\ TextOf(written[i]) = STATUS_MESSAGES(StatusOf(written[i]))
        /\ IsError(written[i], 403, "Forbidden") =>
               written[i].status_line = <<"HTTP/1.1", 403, "Forbidden">>

\* C4: a route handler is called at most once per connection, for a request
\* that passed both guards; it is the handler of the first route, in
\* registration order, whose method and path equal the request's, it is
\* called with the parsed request, and what is written to the connection is
\* the response it returned. When such a route exists and handle_request was
\* left (other than by an interrupt), its handler was called.
C4_FirstMatchWins ==
    /\ Len(handlerCalls) <= 1
    /\ handlerCalls # <<>> =>
           LET call == handlerCalls[1]
               req == request[1]
           IN  /\ ~ContentTypeNotJson(req.headers)
               /\ Admitted(req.headers)
               /\ call.route \in Matching(req)
               /\ \A j \in Matching(req) : call.route <= j
               /\ call.handler = routes[call.route].handler
               /\ call.request = req
               /\ \A i \in 1..Len(written) :
                      written[i] = to_http_response(HandlerResult(call.handler, req))
               /\ left = "return" => Len(written) = 1
    /\ (/\ request # <<>>
        /\ left \notin {"", "SystemExit"}
        /\ ~ContentTypeNotJson(request[1].headers)
        /\ Admitted(request[1].headers)
        /\ Matching(request[1]) # {}) => Len(handlerCalls) = 1

\* C4's case: two routes bind the request's method and path to different
\* handlers, and the response of the first has been written.
C4_Witness ==
    /\ handlerCalls # <<>>
    /\ \E j \in Matching(request[1]) :
           /\ j > handlerCalls[1].route
           /\ routes[j].handler # handlerCalls[1].handler
    /\ left = "return"
    /\ Len(written) = 1

\* C5: for a request that passed both guards and whose method and path equal
\* those of no route, no handler is called, and when handle_request returns
\* it has written 404 {"error": "Route not found"}.
C5_NoMatchingRoute ==
    (/\ request # <<>>
     /\ ~ContentTypeNotJson(request[1].headers)
     /\ Admitted(request[1].headers)
     /\ Matching(request[1]) = {}) =>
        /\ handlerCalls = <<>>
        /\ left \in {"", "return", "OSError", "SystemExit"}
        /\ Len(written) <= 1
        /\ \A i \in 1..Len(written) : IsError(written[i], 404, "Route not found")
        /\ left = "return" => Len(written) = 1

\* C5's case: a well-formed request to a server with an empty route table has
\* been answered with the 404.
C5_Witness ==
    /\ routes = <<>>
    /\ request # <<>>
    /\ request[1].path = ROOT
    /\ left = "return"
    /\ Answered(404, "Route not found")

\* conn.recv returned no bytes for the connection accepted last.
ZeroRead == received = << <<>> >>

\* conn.recv returned at least one byte for the connection accepted last.
BytesRead == received # <<>> /\ received[1] # <<>>

\* C6: when the read on a connection returns no bytes, nothing is written to
\* it, neither auth_handler nor a route handler is called, handle_request
\* returns without raising (running stays true, no error reaches the loop),
\* and the loop goes on to the next accept.
C6_ZeroByteRead ==
    /\ [](ZeroRead =>
            /\ written = <<>>
            /\ authCalls = <<>>
            /\ handlerCalls = <<>>
            /\ request = <<>>
            /\ response = <<>>
            /\ left = "return"
            /\ openConns = {})
    /\ [][(received = <<>> /\ ZeroRead') =>
            /\ pc' = "loop"
            /\ running'
            /\ error' = "none"
            /\ exit' = "no"]_vars
    /\ [][(ZeroRead /\ pc = "loop" /\ running) => pc' \in {"accept", "exited"}]_vars

\* C6's case: after a read of no bytes the loop is back at accept.
C6_Witness == ZeroRead /\ pc = "accept" /\ running /\ accepted = 1

\* The authorization handler raised for the connection accepted last.
AuthRaised ==
    authCalls # <<>> /\ AuthResult(auth_handler, authCalls[1]) \notin {"true", "false"}

\* The route handler called for the connection accepted last raised, or
\* returned something that is no Response or cannot be serialised.
HandlerBroke ==
    /\ handlerCalls # <<>>
    /\ LET res == HandlerResult(handlerCalls[1].handler, handlerCalls[1].request)
       IN  IF res.kind = "Response" THEN JsonDumpsRaises(res.content) ELSE TRUE

\* A response as written is a status line, the Content-Type header and a
\* JSON body.
WellFormed(w) ==
    /\ w.status_line = <<"HTTP/1.1", StatusOf(w), TextOf(w)>>
    /\ w.header_lines = <<"Content-Type: application/json">>
    /\ DOMAIN w.body = {"json"}

\* C7 as stated: whenever handle_request was left for a connection on which
\* bytes were read, without a transport failure (and without an interrupt),
\* exactly one response was written, whatever the handlers did; and never
\* more than one.
C7_Original ==
    /\ Len(written) <= 1
    /\ (BytesRead /\ left \notin {"", "OSError", "SystemExit"}) => Len(written) = 1

\* C7, amended: at most one response is ever written to a connection, only
\* after bytes were read from it and while it is open, and every response
\* written is well formed; exactly one has been written when handle_request
\* was left, provided bytes were read, no transport failure and no interrupt
\* occurred, auth_handler did not raise, and the route handler called (if
\* any) returned a serialisable Response.
C7_OneResponse ==
    /\ [](/\ Len(written) <= 1
          /\ written # <<>> => BytesRead
          /\ \A i \in 1..Len(written) : WellFormed(written[i])
          /\ (/\ BytesRead
              /\ left \notin {"", "OSError", "SystemExit"}
              /\ ~AuthRaised
              /\ ~HandlerBroke) => Len(written) = 1)
    /\ [][(written' # written /\ written' # <<>>) =>
            /\ conn # <<>>
            /\ conn[1] \in openConns
            /\ conn[1] \notin openConns']_vars

\* C7's case: a route handler returned a response of its own choosing and it
\* is the one response written.
C7_Witness ==
    /\ BytesRead
    /\ left = "return"
    /\ handlerCalls # <<>>
    /\ Len(written) = 1
    /\ StatusOf(written[1]) = 418

C9_SingleConnection ==
    /\ Cardinality(openConns) <= 1
    /\ openConns = {conn[i] : i \in 1..Len(conn)}
    /\ pc \in {"loop", "accept", "except", "shutdown", "sock_close", "return", "done"}
           => (conn = <<>> /\ openConns = {})
    /\ pc \in {"recv", "parse", "valueerror", "auth", "dispatch", "send"}
           => conn = <<accepted>>
    /\ served = [i \in 1..Len(served) |-> i]
    /\ Len(served) = accepted - Len(conn)

\* C9's case: the second connection is being handled after the first was
\* left and closed.
C9_Witness ==
    /\ accepted = 2
    /\ served = <<1>>
    /\ conn = <<2>>
    /\ openConns = {2}
    /\ pc = "send"

\* C10 as stated: an interrupt at any point once the socket listens leaves
\* running false and the listening socket closed.
C10_Original ==
    (exit \in {"SystemExit", "KeyboardInterrupt"} /\ sock # "created")
        => (~running /\ sock = "closed")

\* C10, amended: once start() has registered signal_handler (server.py:81),
\* an interrupt can be taken at every point until start() returns, it is
\* handled by signal_handler, and it leaves running false, the listening
\* socket closed and the process terminated, with no connection open; after
\* it no connection is accepted and no handler is called.
C10_InterruptShutdown ==
    /\ []((sigint = "signal_handler" /\ pc \notin {"done", "exited"})
             => ENABLED signal_handler)
    /\ [][(sigint = "signal_handler" /\ exit = "no" /\ exit' \notin {"no", "returned"})
             => exit' = "SystemExit"]_vars
    /\ [](exit = "SystemExit" =>
             /\ ~running
             /\ sock = "closed"
             /\ pc = "exited"
             /\ conn = <<>>
             /\ openConns = {})
    /\ [][exit = "SystemExit" =>
             /\ accepted' = accepted
             /\ handlerCalls' = handlerCalls
             /\ authCalls' = authCalls]_vars

\* C10's case: an interrupt arrived while a connection was being handled.
C10_Witness ==
    /\ exit = "SystemExit"
    /\ left = "SystemExit"
    /\ accepted = 1
    /\ sock = "closed"
    /\ ~running

\* The text holds the separator CR LF CR LF.
HasSeparator(text) ==
    \E i \in 1..(Len(text) - 3) :
        text[i] = CR /\ text[i + 1] = LF /\ text[i + 2] = CR /\ text[i + 3] = LF

\* The text up to its first CR LF.
FirstLine(text) ==
    LET ends == {i \in 1..(Len(text) - 1) : text[i] = CR /\ text[i + 1] = LF}
    IN  IF ends = {} THEN text
        ELSE SubSeq(text, 1, (CHOOSE i \in ends : \A j \in ends : i <= j) - 1)

\* The places where a token (a maximal run without whitespace) starts.
TokenStarts(line) ==
    {i \in 1..Len(line) :
        line[i] \notin Whitespace /\ (i = 1 \/ line[i - 1] \in Whitespace)}

\* The token that starts at place i.
TokenAt(line, i) ==
    LET stops == {j \in i..Len(line) :
                     \A k \in i..j : line[k] \notin Whitespace}
    IN  SubSeq(line, i, CHOOSE j \in stops : \A k \in stops : k <= j)

\* The n-th token of a line.
NthToken(line, n) ==
    TokenAt(line, CHOOSE i \in TokenStarts(line) :
                      Cardinality({j \in TokenStarts(line) : j <= i}) = n)

\* The text lacks the separator, or its first line is not three tokens.
MalformedText(text) ==
    ~HasSeparator(text) \/ Cardinality(TokenStarts(FirstLine(text))) # 3

\* The request with method "", path "", no headers and an empty body.
IsSentinel(r) ==
    r.method = <<>> /\ r.path = <<>> /\ r.headers = {} /\ r.body.chars = <<>>

\* C11: for every text that lacks CR LF CR LF or whose first line does not
\* split on whitespace into exactly three tokens, from_raw returns the empty
\* sentinel; every request it returns is the sentinel or has the method and
\* path of a well-formed text, never a part of a malformed one.
C11_ParseFailureSentinel ==
    pc = "parsed" =>
        LET text == data[1]
            r == request[1]
        IN  /\ MalformedText(text) => IsSentinel(r)
            /\ \/ IsSentinel(r)
               \/ /\ ~MalformedText(text)
                  /\ r.method = NthToken(FirstLine(text), 1)
                  /\ r.path = NthToken(FirstLine(text), 2)
                  /\ r.method # <<>>
                  /\ r.path # <<>>

\* C11's case: a text with the separator and header lines but a request line
\* of two tokens has been parsed to the sentinel.
C11_Witness ==
    /\ pc = "parsed"
    /\ given # <<>>
    /\ given[1].sep
    /\ Len(given[1].tokens) = 2
    /\ \E i \in 1..Len(given[1].lines) : given[1].lines[i].kv
    /\ IsSentinel(request[1])

\* The header map the claim expects of header lines: the key of every
\* "Key: Value" line, with the value of the last line that has the key.
ExpectedHeaders(lines) ==
    {<<lines[i].key, lines[i].value>> : i \in
        {i \in 1..Len(lines) :
            /\ lines[i].kv
            /\ \A j \in (i + 1)..Len(lines) :
                   ~(lines[j].kv /\ lines[j].key = lines[i].key)}}

\* C12: for a text built as a request line of three tokens, header lines and
\* CR LF CR LF followed by a body, from_raw returns the method and path of
\* the request line and a header map with exactly the keys of the
\* "Key: Value" lines, each with the value of the last line that has it (a
\* value being everything after the first ': '); lines without ': ' give no
\* entry and no failure.
C12_ParseWellFormed ==
    (pc = "parsed" /\ given # <<>> /\ given[1].sep /\ Len(given[1].tokens) = 3) =>
        LET g == given[1]
            r == request[1]
        IN  /\ r.method = g.tokens[1]
            /\ r.path = g.tokens[2]
            /\ r.headers = ExpectedHeaders(g.lines)
            /\ {p[1] : p \in r.headers} =
                   {g.lines[i].key : i \in {i \in 1..Len(g.lines) : g.lines[i].kv}}
            /\ \A p, q \in r.headers : p[1] = q[1] => p = q

\* C12's case: a key occurs twice with different values, with a line without
\* ': ' among the header lines, and the parsed map holds the later value.
C12_Witness ==
    /\ pc = "parsed"
    /\ given # <<>>
    /\ given[1].sep
    /\ Len(given[1].tokens) = 3
    /\ \E i, j, k \in 1..Len(given[1].lines) :
           /\ i < j
           /\ given[1].lines[i].kv
           /\ given[1].lines[j].kv
           /\ ~given[1].lines[k].kv
           /\ given[1].lines[i].key = given[1].lines[j].key
           /\ given[1].lines[i].value # given[1].lines[j].value
           /\ <<given[1].lines[j].key, given[1].lines[j].value>> \in request[1].headers
           /\ <<given[1].lines[i].key, given[1].lines[i].value>> \notin request[1].headers

\* The route handler called for the connection accepted last returned a value
\* that is not a Response.
NotAResponse ==
    /\ handlerCalls # <<>>
    /\ HandlerResult(handlerCalls[1].handler, handlerCalls[1].request).kind
           \notin {"Response", "raise"}

\* C13: when the matched route handler returns a value that is not a
\* Response, nothing is ever written to the connection; the send step raises
\* ValueError, which closes the connection and reaches the except clause of
\* the accept loop, where it is fatal: running becomes false, no further
\* connection is accepted, and the listening socket is closed when the thread
\* is done.
C13_SendMisuse ==
    /\ [](NotAResponse =>
            /\ written = <<>>
            /\ left \in {"", "ValueError", "SystemExit"}
            /\ left = "" => (pc = "send" /\ conn # <<>>)
            /\ left = "ValueError" =>
                  /\ error = "ValueError"
                  /\ conn = <<>>
                  /\ openConns = {}
                  /\ (pc = "except" \/ ~running)
            /\ pc \in {"done", "exited"} => (sock = "closed" /\ ~running))
    /\ [][(NotAResponse /\ pc = "send" /\ pc' # "exited") =>
            /\ left' = "ValueError"
            /\ pc' = "except"
            /\ written' = <<>>]_vars
    /\ [][(NotAResponse /\ left # "") => accepted' = accepted]_vars

\* C13's case: a handler returned a dict; nothing was written, the connection
\* is closed and the server has stopped with its socket closed.
C13_Witness ==
    /\ NotAResponse
    /\ left = "ValueError"
    /\ written = <<>>
    /\ openConns = {}
    /\ pc = "done"
    /\ exit = "returned"
    /\ sock = "closed"
    /\ ~running

\* The place of a step of handle_request in the order of server.py:106-141;
\* the except ValueError clause (server.py:117) comes after everything in the
\* try block and before its own write.
Rank(p) ==
    CASE p = "recv" -> 1
      [] p = "parse" -> 2
      [] p = "auth" -> 3
      [] p = "dispatch" -> 4
      [] p = "valueerror" -> 5
      [] p = "send" -> 6
      [] OTHER -> 7

\* C14: on every connection the pipeline starts at the read and each step
\* moves it strictly forward in the order read, parse and Content-Type guard,
\* authorization guard, route dispatch, write, so that no step occurs twice;
\* auth_handler and a route handler are called at most once, for the parsed
\* request, and nothing is called after the write; a route handler is called
\* only if the Content-Type guard passed and either no auth_handler is
\* configured or auth_handler was called with the parsed headers of that
\* request and returned true.
C14_PipelineOrder ==
    /\ [][(conn' # <<>> /\ conn' # conn) => pc' = "recv"]_vars
    /\ [][(conn # <<>> /\ conn' = conn) => Rank(pc') > Rank(pc)]_vars
    /\ [][(conn # <<>> /\ conn' = conn) => Rank(pc') <= 6]_vars
    /\ [](/\ Len(received) <= 1
          /\ Len(authCalls) <= 1
          /\ Len(handlerCalls) <= 1
          /\ Len(written) <= 1
          /\ request # <<>> => BytesRead
          /\ authCalls # <<>> =>
                /\ request # <<>>
                /\ authCalls = <<request[1].headers>>
                /\ ~ContentTypeNotJson(request[1].headers)
                /\ auth_handler # "None"
          /\ handlerCalls # <<>> =>
                /\ request # <<>>
                /\ handlerCalls[1].request = request[1]
                /\ ~ContentTypeNotJson(request[1].headers)
                /\ \/ auth_handler = "None"
                   \/ /\ authCalls = <<request[1].headers>>
                      /\ AuthResult(auth_handler, request[1].headers) = "true")
    /\ [][(handlerCalls # <<>> /\ accepted' = accepted) =>
            (authCalls' = authCalls /\ handlerCalls' = handlerCalls)]_vars
    /\ [][(written # <<>> /\ accepted' = accepted) =>
            (authCalls' = authCalls /\ handlerCalls' = handlerCalls
                /\ written' = written)]_vars

\* C14's case: auth_handler admitted a request, the route handler ran after
\* it and its response was written.
C14_Witness ==
    /\ auth_handler = "custom_auth_handler"
    /\ authCalls # <<>>
    /\ AuthResult(auth_handler, authCalls[1]) = "true"
    /\ Len(handlerCalls) = 1
    /\ Len(written) = 1
    /\ StatusOf(written[1]) = 200
    /\ left = "return"

\* The text read on the connection accepted last is malformed and has been
\* parsed.
MalformedRequest == request # <<>> /\ data # <<>> /\ MalformedText(data[1])

\* The routes registered with both an empty method and an empty path.
EmptyRoutes == {i \in 1..Len(routes) : routes[i].method = <<>> /\ routes[i].path = <<>>}

\* What the claim says of a malformed request: never the Content-Type 400,
\* no route handler called, and the 404 once handle_request has returned
\* after the authorization guard admitted it.
MalformedOutcome ==
    /\ IsSentinel(request[1])
    /\ \A i \in 1..Len(written) : ~IsError(written[i], 400, "Invalid Content-Type")
    /\ handlerCalls = <<>>
    /\ (Admitted(request[1].headers) /\ left = "return")
           => written = <<to_http_response(RouteNotFound)>>

\* C15 as stated: a non-empty malformed request never triggers the
\* Content-Type 400 and never causes a route handler to be called, and is
\* answered with the 404 when the authorization guard admits it.
C15_Original == MalformedRequest => MalformedOutcome

\* C15, amended: a non-empty malformed request is parsed to the empty
\* sentinel and never triggers the Content-Type 400; provided no registered
\* route has both an empty method and an empty path, no route handler is
\* called for it and, when the authorization guard admits it, it is answered
\* with 404 {"error": "Route not found"}; when such a route is registered and
\* the guard admits the request, the handler of the first such route is
\* called.
C15_MalformedIsNotFound ==
    MalformedRequest =>
        /\ IsSentinel(request[1])
        /\ \A i \in 1..Len(written) : ~IsError(written[i], 400, "Invalid Content-Type")
        /\ EmptyRoutes = {} => MalformedOutcome
        /\ (EmptyRoutes # {} /\ Admitted(request[1].headers) /\ left \notin {"", "SystemExit"})
               => /\ Len(handlerCalls) = 1
                  /\ handlerCalls[1].route \in EmptyRoutes
                  /\ \A i \in EmptyRoutes : handlerCalls[1].route <= i
        /\ handlerCalls # <<>> => handlerCalls[1].route \in EmptyRoutes

\* C15's case: a malformed request to a server with routes, none of them
\* empty, has been answered with the 404.
C15_Witness ==
    /\ MalformedRequest
    /\ routes # <<>>
    /\ EmptyRoutes = {}
    /\ left = "return"
    /\ Answered(404, "Route not found")

\* C16: the 400 {"error": "Invalid request format"} of the except ValueError
\* clause of handle_request is never written, whatever bytes the peer sends.
C16_ValueErrorBranchDead ==
    \A i \in 1..Len(written) : ~IsError(written[i], 400, "Invalid request format")

\* C17 as stated: no connection handler is cut short by an interrupt; the
\* process terminates on an interrupt only after the handler of the accepted
\* connection was left in its own way.
C17_Original == left # "SystemExit"

\* C17, amended: while a connection is being handled an interrupt can be
\* taken at every step; it takes effect at once: the steps of the pipeline
\* not yet run never run (nothing more is written, no auth_handler or route
\* handler is called), the connection is closed, the listening socket is
\* closed and the process terminates with SystemExit; nothing happens after
\* the process has terminated.
C17_InterruptCancels ==
    /\ [](conn # <<>> => (sigint = "signal_handler" /\ ENABLED signal_handler))
    /\ [][(conn # <<>> /\ exit = "no" /\ exit' # "no") =>
            /\ exit' = "SystemExit"
            /\ left' = "SystemExit"
            /\ conn' = <<>>
            /\ openConns' = {}
            /\ written' = written
            /\ authCalls' = authCalls
            /\ handlerCalls' = handlerCalls
            /\ sock' = "closed"
            /\ ~running'
            /\ pc' = "exited"]_vars
    /\ [](left = "SystemExit" =>
            /\ exit = "SystemExit"
            /\ pc = "exited"
            /\ conn = <<>>
            /\ openConns = {}
            /\ Len(written) <= 1)
    /\ [][pc # "exited"]_vars

\* C17's case: the interrupt came after the route handler returned its
\* response and before the write; the connection was closed unanswered.
C17_Witness ==
    /\ left = "SystemExit"
    /\ handlerCalls # <<>>
    /\ response # <<>>
    /\ response[1].kind = "Response"
    /\ written = <<>>
    /\ openConns = {}
    /\ sock = "closed"

\* C18: shutdown() is never called more than once and the listening socket
\* is never closed more than once, and when the thread has left start(),
\* by returning or by the SystemExit of signal_handler, each has happened
\* exactly once.
C18_ShutdownOnce ==
    /\ shutdownCalls <= 1
    /\ closeCalls <= 1
    /\ exit \in {"returned", "SystemExit"} => (shutdownCalls = 1 /\ closeCalls = 1)

\* The ways handle_request is left: by a return, by an exception, or by the
\* SystemExit of an interrupt.
ExitPaths ==
    {"return", "OSError", "Exception", "ValueError", "TypeError",
     "UnboundLocalError", "SystemExit"}

\* C19: whenever handle_request is left, by a return (after a zero-byte read
\* or after a response was written) or by an exception (handler failure,
\* non-Response result, unserialisable content, transport failure), the
\* connection it handled was open and is closed by that step; hence every
\* connection accepted before is closed whenever the loop is at its test or
\* waiting in accept, and when the server has stopped.
C19_ConnectionsClosed ==
    /\ [](/\ left \in ExitPaths \cup {""}
          /\ left # "" => (conn = <<>> /\ openConns = {})
          /\ left = "" => (conn = <<>> <=> accepted = 0)
          /\ \A i \in 1..Len(served) : served[i] \notin openConns
          /\ {served[i] : i \in 1..Len(served)} \cup openConns = 1..accepted
          /\ pc \in {"loop", "accept", "except", "shutdown", "sock_close",
                     "return", "done", "exited"} => openConns = {})
    /\ [][(left' # left /\ left' # "") =>
            /\ conn # <<>>
            /\ conn[1] \in openConns
            /\ conn[1] \notin openConns'
            /\ openConns' = {}]_vars

\* C19's case: the handler of the second connection was left by the
\* TypeError of an unserialisable response; both connections are closed and
\* the server has stopped.
C19_Witness ==
    /\ accepted = 2
    /\ left = "TypeError"
    /\ handlerCalls # <<>>
    /\ served = <<1, 2>>
    /\ openConns = {}
    /\ pc = "done"

====
